---------------------------- MODULE Spec2Model ----------------------------
(***************************************************************************)
(* Model of src/pico_hearing_aid_digital.py: the chunked real-time loop    *)
(* (read -> periodic control refresh -> per-frame decode / compress /      *)
(* encode in place -> write) with its try / except KeyboardInterrupt /     *)
(* finally shell, the 24-in-32 bit sample codec, read_pots and             *)
(* compress_sample.                                                        *)
(*                                                                         *)
(* Numbers.  The program runs under MicroPython on the RP2 (it imports     *)
(* machine.I2S / machine.ADC), whose float is IEEE-754 binary32.  A float  *)
(* is modelled bit-exactly as a pair <<m, e>> standing for m * 2^e with    *)
(* 2^23 <= |m| < 2^24 (or <<0, 0>> for zero); +, -, *, / round to nearest, *)
(* ties to even.  Exponents stay far from the binary32 limits for every    *)
(* value the program computes, so infinities, NaNs and subnormals are not  *)
(* modelled.  Integers of the model checker are 32 bit signed, so a 32 bit *)
(* unsigned container word is never formed: it is handled through its low  *)
(* byte and its upper 24 bits.                                             *)
(***************************************************************************)
EXTENDS Integers, Sequences, FiniteSets, TLC

----------------------------------------------------------------------------
(* binary32 arithmetic *)

\* Pow2[n] = 2^n for n in 0..30
Pow2 ==
    [n \in 0..30 |->
        <<1, 2, 4, 8, 16, 32, 64, 128, 256, 512, 1024, 2048, 4096, 8192, 16384,
          32768, 65536, 131072, 262144, 524288, 1048576, 2097152, 4194304,
          8388608, 16777216, 33554432, 67108864, 134217728, 268435456,
          536870912, 1073741824>>[n + 1]]

MantBits == 24

Abs(n) == IF n < 0 THEN -n ELSE n

Sgn(n) == IF n < 0 THEN -1 ELSE IF n > 0 THEN 1 ELSE 0

FZero == <<0, 0>>

\* number of binary digits of M, 0 < M < 2^31
BitLen(M) ==
    IF M >= 65536
    THEN IF M >= 16777216
         THEN IF M >= 268435456
              THEN IF M >= 1073741824 THEN 31 ELSE IF M >= 536870912 THEN 30 ELSE 29
              ELSE IF M >= 67108864
                   THEN IF M >= 134217728 THEN 28 ELSE 27
                   ELSE IF M >= 33554432 THEN 26 ELSE 25
         ELSE IF M >= 1048576
              THEN IF M >= 4194304
                   THEN IF M >= 8388608 THEN 24 ELSE 23
                   ELSE IF M >= 2097152 THEN 22 ELSE 21
              ELSE IF M >= 262144
                   THEN IF M >= 524288 THEN 20 ELSE 19
                   ELSE IF M >= 131072 THEN 18 ELSE 17
    ELSE IF M >= 256
         THEN IF M >= 4096
              THEN IF M >= 16384
                   THEN IF M >= 32768 THEN 16 ELSE 15
                   ELSE IF M >= 8192 THEN 14 ELSE 13
              ELSE IF M >= 1024
                   THEN IF M >= 2048 THEN 12 ELSE 11
                   ELSE IF M >= 512 THEN 10 ELSE 9
         ELSE IF M >= 16
              THEN IF M >= 64
                   THEN IF M >= 128 THEN 8 ELSE 7
                   ELSE IF M >= 32 THEN 6 ELSE 5
              ELSE IF M >= 4
                   THEN IF M >= 8 THEN 4 ELSE 3
                   ELSE IF M >= 2 THEN 2 ELSE 1

\* Strict evaluation: operands are bound to their values once (a set
\* constructor enumerates values), so that an operand used several times
\* in a body is not computed again at every use.
Only(S) == CHOOSE v \in S : TRUE

\* The float nearest to sg * (M + f) * 2^E, where M > 0, sg is -1 or 1 and
\* 0 < f < 1 if sticky, f = 0 otherwise; a tie goes to the even mantissa.
\* A sticky M must carry more than MantBits digits.  L is BitLen(M).
RoundBits(sg, M, E, sticky, L) ==
    IF L <= MantBits
    THEN <<sg * M * Pow2[MantBits - L], E - (MantBits - L)>>
    ELSE LET k    == L - MantBits
             q    == M \div Pow2[k]
             r    == M % Pow2[k]
             half == Pow2[k - 1]
             up   == r > half \/ (r = half /\ (sticky \/ q % 2 = 1))
             q1   == IF up THEN q + 1 ELSE q
         IN  IF q1 = Pow2[MantBits]
             THEN <<sg * Pow2[MantBits - 1], E + k + 1>>
             ELSE <<sg * q1, E + k>>

FRound(sg, M, E, sticky) ==
    Only({ RoundBits(sg, m, E, sticky, BitLen(m)) : m \in {M} })

\* int -> float conversion, |n| < 2^31
FromInt(n) == IF n = 0 THEN FZero ELSE FRound(Sgn(n), Abs(n), 0, FALSE)

FNeg(x) == <<-x[1], x[2]>>

\* x + y with x[2] >= y[2], both non-zero: six guard bits and a sticky bit
FAddOrdered(x, y) ==
    LET d == x[2] - y[2] IN
    IF d > 26 THEN x
    ELSE LET A   == x[1] * 64
             By  == Abs(y[1]) * 64
             B   == Sgn(y[1]) * (By \div Pow2[d])
             st  == By % Pow2[d] # 0
             S   == A + B
         IN  IF S = 0 THEN FZero
             ELSE IF st /\ Sgn(S) # Sgn(y[1])
                  THEN FRound(Sgn(S), Abs(S) - 1, x[2] - 6, TRUE)
                  ELSE FRound(Sgn(S), Abs(S), x[2] - 6, st)

AddValues(x, y) ==
    IF x[1] = 0 THEN y
    ELSE IF y[1] = 0 THEN x
    ELSE IF x[2] >= y[2] THEN FAddOrdered(x, y) ELSE FAddOrdered(y, x)

FAdd(x, y) == Only({ AddValues(a, b) : a \in {x}, b \in {y} })

FSub(x, y) == Only({ AddValues(a, FNeg(b)) : a \in {x}, b \in {y} })

\* x * y: the 48 bit product of the mantissas through 12 bit limbs
MulValues(x, y) ==
    IF x[1] = 0 \/ y[1] = 0 THEN FZero
    ELSE LET a   == Abs(x[1])
             b   == Abs(y[1])
             ah  == a \div 4096
             al  == a % 4096
             bh  == b \div 4096
             bl  == b % 4096
             lo  == al * bl
             t   == ah * bl + al * bh + lo \div 4096
             q   == ah * bh * 4 + t \div 1024
             st  == t % 1024 # 0 \/ lo % 4096 # 0
         IN  FRound(Sgn(x[1]) * Sgn(y[1]), q, x[2] + y[2] + 22, st)

FMul(x, y) == Only({ MulValues(a, b) : a \in {x}, b \in {y} })

\* one step of the long division of rem * 2^bits by b: <<quotient digits
\* appended to quo, new remainder>>
DivStep(qr, b, base) ==
    <<qr[1] * base + (qr[2] * base) \div b, (qr[2] * base) % b>>

\* x / y, y non-zero: 26 quotient bits by long division, six bits a step
DivValues(x, y) ==
    IF x[1] = 0 THEN FZero
    ELSE LET a  == Abs(x[1])
             b  == Abs(y[1])
         IN  Only({ FRound(Sgn(x[1]) * Sgn(y[1]), qr[1], x[2] - y[2] - 26,
                           qr[2] # 0) :
                    qr \in { DivStep(q4, b, 4) :
                      q4 \in { DivStep(q3, b, 64) :
                        q3 \in { DivStep(q2, b, 64) :
                          q2 \in { DivStep(q1, b, 64) :
                            q1 \in { DivStep(<<a \div b, a % b>>, b, 64) } } } } } })

FDiv(x, y) == Only({ DivValues(a, b) : a \in {x}, b \in {y} })

\* x < y
LtValues(x, y) ==
    LET sx == Sgn(x[1])
        sy == Sgn(y[1])
    IN  IF sx # sy THEN sx < sy
        ELSE IF sx = 0 THEN FALSE
        ELSE IF x[2] # y[2] THEN (IF sx > 0 THEN x[2] < y[2] ELSE x[2] > y[2])
        ELSE x[1] < y[1]

FLt(x, y) == Only({ LtValues(a, b) : a \in {x}, b \in {y} })

FGt(x, y) == FLt(y, x)

FLe(x, y) == ~FLt(y, x)

\* int(x): truncation toward zero, |x| < 2^31
TruncValue(x) ==
    IF x[1] = 0 THEN 0
    ELSE IF x[2] >= 0 THEN x[1] * Pow2[x[2]]
    ELSE IF -x[2] > 30 THEN 0
    ELSE Sgn(x[1]) * (Abs(x[1]) \div Pow2[-x[2]])

FTrunc(x) == Only({ TruncValue(a) : a \in {x} })

----------------------------------------------------------------------------
(* configuration of the program *)

SAMPLE_RATE == 16000

\* bytes of one stereo frame: two 32 bit words
FrameBytes == 8

\* frames of one chunk in the model (the program's chunk holds 64)
MaxFrames == 2

\* len(audio_buffer); 512 in the program, scaled with MaxFrames here
CHUNK_SIZE == FrameBytes * MaxFrames

COMPRESS_THRESHOLD == 500000

COMPRESS_RATIO == FromInt(3)

MIN_TIME_MS == 5

MAX_TIME_MS == 200

\* 0.5
MIN_GAIN == <<Pow2[23], -24>>

MAX_GAIN == FromInt(8)

POT_READ_INTERVAL == 20

\* 0x7FFFFF
max_val == 8388607

FOne == FromInt(1)

\* float(COMPRESS_THRESHOLD)
FThreshold == FromInt(COMPRESS_THRESHOLD)

\* the float literal 65535.0
AdcFullScale == FromInt(65535)

\* the initial values of attack_coeff (0.1) and release_coeff (0.01)
InitAttack == FDiv(FOne, FromInt(10))

InitRelease == FDiv(FOne, FromInt(100))

----------------------------------------------------------------------------
(* read_pots *)

\* The new <<current_gain, attack_coeff, release_coeff>> for the two ADC
\* readings, given the coefficients in force (kept when samples_per_time
\* is not positive).
read_pots(gain_raw, compress_raw, old_attack, old_release) ==
    LET gain_normalized     == FDiv(FromInt(gain_raw), AdcFullScale)
        gain                == FAdd(MIN_GAIN,
                                    FMul(gain_normalized, FSub(MAX_GAIN, MIN_GAIN)))
        compress_normalized == FDiv(FromInt(compress_raw), AdcFullScale)
        time_ms             == FAdd(FromInt(MIN_TIME_MS),
                                    FMul(compress_normalized,
                                         FromInt(MAX_TIME_MS - MIN_TIME_MS)))
        samples_per_time    == FMul(FDiv(time_ms, FromInt(1000)),
                                    FromInt(SAMPLE_RATE))
    IN  Only({ IF FGt(spt, FZero)
                   THEN <<gain, FDiv(FOne, spt), FDiv(FOne, spt)>>
                   ELSE <<gain, old_attack, old_release>> :
                   spt \in {samples_per_time} })

----------------------------------------------------------------------------
(* compress_sample *)

\* a faulty follower: the difference taken the wrong way round
EnvelopeUpdateReversed(abs_sample, envelope, attack, release) ==
    IF FGt(FromInt(abs_sample), envelope)
    THEN FAdd(envelope, FMul(attack, FSub(envelope, FromInt(abs_sample))))
    ELSE FAdd(envelope, FMul(release, FSub(envelope, FromInt(abs_sample))))

\* the envelope follower: attack when the magnitude is above the envelope,
\* release otherwise
EnvelopeUpdate(abs_sample, envelope, attack, release) ==
    IF FGt(FromInt(abs_sample), envelope)
    THEN FAdd(envelope, FMul(attack, FSub(FromInt(abs_sample), envelope)))
    ELSE FAdd(envelope, FMul(release, FSub(FromInt(abs_sample), envelope)))

\* a faulty gain reduction: the excess multiplied by the ratio, not divided
CompGainExpanding(envelope) ==
    IF FGt(envelope, FThreshold)
    THEN LET over_threshold   == FDiv(envelope, FThreshold)
             compressed_ratio == FAdd(FOne,
                                      FMul(FSub(over_threshold, FOne),
                                           COMPRESS_RATIO))
         IN  FDiv(FMul(FThreshold, compressed_ratio), envelope)
    ELSE FOne

\* the gain reduction for an (updated) envelope
CompGain(envelope) ==
    IF FGt(envelope, FThreshold)
    THEN LET over_threshold   == FDiv(envelope, FThreshold)
             compressed_ratio == FAdd(FOne,
                                      FDiv(FSub(over_threshold, FOne),
                                           COMPRESS_RATIO))
         IN  FDiv(FMul(FThreshold, compressed_ratio), envelope)
    ELSE FOne

\* a faulty clip: the lower bound forgotten
ClipUpperOnly(output) == IF output > max_val THEN max_val ELSE output

\* the clipping of the scaled sample to +-max_val
SoftClip(output) ==
    IF output > max_val THEN max_val
    ELSE IF output < -max_val THEN -max_val
    ELSE output

\* output = int(sample * total_gain)
ApplyGain(sample, total_gain) == FTrunc(FMul(FromInt(sample), total_gain))

\* the last stage of compress_sample: total gain, scaling, clipping
GainStage(sample, env, comp_gain, gain) ==
    Only({ [output |-> SoftClip(out), envelope |-> env, comp_gain |-> comp_gain] :
           out \in {ApplyGain(sample, FMul(gain, comp_gain))} })

\* compress_sample(sample, envelope, gain) with the coefficients in force;
\* the result carries the local comp_gain beside the returned pair
compress_sample(sample, envelope, gain, attack, release) ==
    Only({ Only({ GainStage(sample, env, comp_gain, gain) :
                  comp_gain \in {CompGain(env)} }) :
           env \in {EnvelopeUpdate(Abs(sample), envelope, attack, release)} })

----------------------------------------------------------------------------
(* the sample codec of the main loop; idx is the 0-based byte offset of a
   32 bit little-endian word in the buffer *)

\* bits 8..31 of the unsigned word b0 | b1 << 8 | b2 << 16 | b3 << 24
UpperBits(buf, idx) == buf[idx + 2] + buf[idx + 3] * 256 + buf[idx + 4] * 65536

\* a faulty decoder: the sign correction forgotten
DecodeUnsigned(buf, idx) == UpperBits(buf, idx)

\* "if word >= 0x80000000: word -= 0x100000000", then "word >> 8": the word
\* is at least 0x80000000 exactly when its upper 24 bits are at least
\* 0x800000, and the arithmetic shift drops the low byte
Decode(buf, idx) ==
    IF UpperBits(buf, idx) >= Pow2[23]
    THEN UpperBits(buf, idx) - Pow2[24]
    ELSE UpperBits(buf, idx)

\* bits 8..31 of "out << 8", wrapped by "if < 0: += 0x100000000"
Wrapped(out) == IF out < 0 THEN out + Pow2[24] ELSE out

\* the four bytes stored for out: (w & 0xFF, (w >> 8) & 0xFF,
\* (w >> 16) & 0xFF, (w >> 24) & 0xFF) with w the wrapped out << 8
Encode(out) ==
    <<0, Wrapped(out) % 256, (Wrapped(out) \div 256) % 256,
      (Wrapped(out) \div 65536) % 256>>

\* buf with the four bytes of word at offset idx replaced
StoreWord(buf, idx, word) ==
    [k \in 1..Len(buf) |->
        IF k > idx /\ k <= idx + 4 THEN word[k - idx] ELSE buf[k]]

----------------------------------------------------------------------------
(* bounds and inputs of the model *)

\* non-empty reads of one run
MaxChunks == 21

\* reads of one run other than a whole chunk of silence
MaxOdd == 1

\* the four bytes of a container word holding sample in its upper 24 bits
\* over the padding byte low
WordBytes(sample, low) ==
    <<low, Wrapped(sample) % 256, (Wrapped(sample) \div 256) % 256,
      (Wrapped(sample) \div 65536) % 256>>

\* a chunk whose frame j holds the pair number (j mod Len(frames)) + 1
ChunkOf(frames, low) ==
    [k \in 1..CHUNK_SIZE |->
        LET pair == frames[(((k - 1) \div FrameBytes) % Len(frames)) + 1]
            b    == (k - 1) % FrameBytes
        IN  IF b < 4 THEN WordBytes(pair[1], low)[b + 1]
            ELSE WordBytes(pair[2], low)[b - 3]]

\* silence: every sample 0 over a non-zero padding byte
SilentChunk == ChunkOf(<< <<0, 0>> >>, 51)

\* a chunk of loud audio: full-scale samples of both signs, mid-scale
\* samples either side of the threshold
LoudChunk ==
    ChunkOf(<< <<-Pow2[23], max_val>>, <<1000000, -1>>, <<-700000, 3000000>> >>,
            255)

\* what readinto may return: nothing, less than a frame, one byte short of
\* the whole chunk, the whole chunk
ReadSizes == {0, FrameBytes - 1, CHUNK_SIZE - 1, CHUNK_SIZE}

\* what the two ADCs may read, <<gain pot, compression pot>> (4369 gives a
\* gain of exactly 1.0)
PotReadings == {<<0, 65535>>, <<4369, 4369>>, <<65535, 0>>}

----------------------------------------------------------------------------
(* state *)

VARIABLES
    pc,              \* position in the script: "read", "control", "pots",
                     \* "frame", "right", "store_l", "store_r", "write",
                     \* "except", "finally", "stopped"
    audio_buffer,    \* the CHUNK_SIZE bytes of audio_buffer
    num_read,        \* result of the last readinto
    loop_count,
    i,               \* index of the for loop
    left_out,
    right_out,
    envelope_left,
    envelope_right,
    current_gain,
    attack_coeff,
    release_coeff,
    in_deinit,       \* calls of audio_in.deinit()
    out_deinit,      \* calls of audio_out.deinit()
    \* history variables
    chunks_read,     \* non-empty reads so far
    chunks_written,  \* writes so far
    pot_reads,       \* calls of read_pots so far
    chunk_in,        \* audio_buffer as the last non-empty read left it
    env_in,          \* <<envelope_left, envelope_right>> at that read
    written,         \* the bytes of the last write
    comp_left,       \* comp_gain of the last compress_sample call, per channel
    comp_right,
    env_updates,     \* compress_sample calls since the last non-empty read
    interrupted_at,  \* pc at which KeyboardInterrupt was raised, or "none"
    used_released,   \* a stream was read or written after its deinit
    expected,        \* ExpectedBuffer for the chunk read, fixed when the
                     \* control step of its iteration ends
    odd_used         \* reads so far other than a whole chunk of silence

vars == <<pc, audio_buffer, num_read, loop_count, i, left_out, right_out,
          envelope_left, envelope_right, current_gain, attack_coeff,
          release_coeff, in_deinit, out_deinit, chunks_read, chunks_written,
          pot_reads, chunk_in, env_in, written, comp_left, comp_right,
          env_updates, interrupted_at, used_released, expected, odd_used>>

ctl == <<current_gain, attack_coeff, release_coeff>>

envs == <<envelope_left, envelope_right>>

hist == <<chunks_read, chunks_written, pot_reads, chunk_in, env_in, written,
          comp_left, comp_right, env_updates, interrupted_at, used_released,
          expected, odd_used>>

LoopPcs == {"read", "control", "pots", "frame", "right", "store_l",
            "store_r", "write"}

FramePcs == {"frame", "right", "store_l", "store_r"}

\* the state after the module-level set-up, at the first "while True"
Init ==
    /\ pc = "read"
    /\ audio_buffer = [k \in 1..CHUNK_SIZE |-> 0]
    /\ num_read = 0
    /\ loop_count = 0
    /\ i = 0
    /\ left_out = 0
    /\ right_out = 0
    /\ envelope_left = FZero
    /\ envelope_right = FZero
    /\ current_gain = FOne
    /\ attack_coeff = InitAttack
    /\ release_coeff = InitRelease
    /\ in_deinit = 0
    /\ out_deinit = 0
    /\ chunks_read = 0
    /\ chunks_written = 0
    /\ pot_reads = 0
    /\ chunk_in = [k \in 1..CHUNK_SIZE |-> 0]
    /\ env_in = <<FZero, FZero>>
    /\ written = <<>>
    /\ comp_left = FOne
    /\ comp_right = FOne
    /\ env_updates = 0
    /\ interrupted_at = "none"
    /\ used_released = FALSE
    /\ expected = audio_buffer
    /\ odd_used = 0

----------------------------------------------------------------------------
(* the main loop *)

\* the step of the loop the script is at, or was at when it was interrupted
Where == IF pc \in LoopPcs THEN pc ELSE interrupted_at

\* the buffer after frames k .. nf - 1 have been decoded, compressed and
\* stored, the envelopes being eL and eR before frame k and c the controls
RECURSIVE ProcessFrames(_, _, _, _, _, _)
ProcessFrames(buf, k, nf, eL, eR, c) ==
    IF k >= nf THEN buf
    ELSE Only({ ProcessFrames(
                    StoreWord(StoreWord(buf, k * FrameBytes, Encode(l.output)),
                              k * FrameBytes + 4, Encode(r.output)),
                    k + 1, nf, l.envelope, r.envelope, c) :
                l \in {compress_sample(Decode(buf, k * FrameBytes), eL,
                                       c[1], c[2], c[3])},
                r \in {compress_sample(Decode(buf, k * FrameBytes + 4), eR,
                                       c[1], c[2], c[3])} })

\* the buffer the iteration is to write from under the controls c: every
\* whole frame of the bytes read processed in order, from the envelopes as
\* they were at the read
ExpectedBuffer(c) ==
    ProcessFrames(chunk_in, 0, num_read \div FrameBytes, env_in[1], env_in[2],
                  c)

\* a faulty frame count: rounded up, a partial frame counted as a frame
num_frames_ceiling == (num_read + FrameBytes - 1) \div FrameBytes

\* num_frames = num_read // 8
num_frames == num_read \div FrameBytes

\* where the loop goes once the control step is over
AfterControl == IF num_frames > 0 THEN "frame" ELSE "write"

\* readinto returns 0: "if num_read > 0" fails and the loop reads again
ReadEmpty ==
    /\ pc = "read"
    /\ num_read' = 0
    /\ pc' = "read"
    /\ used_released' = (used_released \/ in_deinit > 0)
    /\ UNCHANGED <<audio_buffer, loop_count, i, left_out, right_out, envs, ctl,
                   in_deinit, out_deinit, chunks_read, chunks_written,
                   pot_reads, chunk_in, env_in, written, comp_left,
                   comp_right, env_updates, interrupted_at, expected,
                   odd_used>>

\* readinto stores the first n bytes of data and returns n > 0
ReadChunk(n, data) ==
    /\ pc = "read"
    /\ n > 0
    /\ chunks_read < MaxChunks
    /\ (n # CHUNK_SIZE \/ data # SilentChunk) => odd_used < MaxOdd
    /\ audio_buffer' = [k \in 1..CHUNK_SIZE |->
                           IF k <= n THEN data[k] ELSE audio_buffer[k]]
    /\ num_read' = n
    /\ pc' = "control"
    /\ chunks_read' = chunks_read + 1
    /\ chunk_in' = audio_buffer'
    /\ env_in' = envs
    /\ env_updates' = 0
    /\ expected' = audio_buffer'
    /\ odd_used' = IF n # CHUNK_SIZE \/ data # SilentChunk
                    THEN odd_used + 1 ELSE odd_used
    /\ used_released' = (used_released \/ in_deinit > 0)
    /\ UNCHANGED <<loop_count, i, left_out, right_out, envs, ctl, in_deinit,
                   out_deinit, chunks_written, pot_reads, written, comp_left,
                   comp_right, interrupted_at>>

\* a faulty comparison: the refresh one read late
RefreshDueLate(count) == count > POT_READ_INTERVAL

\* "if loop_count >= POT_READ_INTERVAL" for the incremented count
RefreshDue(count) == count >= POT_READ_INTERVAL

\* "if num_read > 0" holds: loop_count += 1, and when a refresh is due the
\* count is reset and read_pots is next
Count ==
    /\ pc = "control"
    /\ IF RefreshDue(loop_count + 1)
       THEN /\ loop_count' = 0
            /\ pc' = "pots"
            /\ i' = i
            /\ expected' = expected
       ELSE /\ loop_count' = loop_count + 1
            /\ pc' = AfterControl
            /\ i' = 0
            /\ expected' = ExpectedBuffer(ctl)
    /\ UNCHANGED <<audio_buffer, num_read, left_out, right_out, envs, ctl,
                   in_deinit, out_deinit, chunks_read, chunks_written,
                   pot_reads, chunk_in, env_in, written, comp_left,
                   comp_right, env_updates, interrupted_at, used_released,
                   odd_used>>

\* gain, comp_time = read_pots() with the two ADC readings
ReadPots(gain_raw, compress_raw) ==
    /\ pc = "pots"
    /\ \E r \in {read_pots(gain_raw, compress_raw, attack_coeff, release_coeff)} :
           /\ current_gain' = r[1]
           /\ attack_coeff' = r[2]
           /\ release_coeff' = r[3]
           /\ expected' = ExpectedBuffer(r)
    /\ pot_reads' = pot_reads + 1
    /\ i' = 0
    /\ pc' = AfterControl
    /\ UNCHANGED <<audio_buffer, num_read, loop_count, left_out, right_out,
                   envs, in_deinit, out_deinit, chunks_read, chunks_written,
                   chunk_in, env_in, written, comp_left, comp_right,
                   env_updates, interrupted_at, used_released, odd_used>>

\* frame i: decode both words, compress the left sample
FrameLeft ==
    /\ pc = "frame"
    /\ \E r \in {compress_sample(Decode(audio_buffer, i * FrameBytes),
                                   envelope_left, current_gain,
                                   attack_coeff, release_coeff)} :
           /\ left_out' = r.output
           /\ envelope_left' = r.envelope
           /\ comp_left' = r.comp_gain
    /\ env_updates' = env_updates + 1
    /\ pc' = "right"
    /\ UNCHANGED <<audio_buffer, num_read, loop_count, i, right_out,
                   envelope_right, ctl, in_deinit, out_deinit, chunks_read,
                   chunks_written, pot_reads, chunk_in, env_in, written,
                   comp_right, interrupted_at, used_released, expected,
                   odd_used>>

\* frame i: compress the right sample
FrameRight ==
    /\ pc = "right"
    /\ \E r \in {compress_sample(Decode(audio_buffer, i * FrameBytes + 4),
                                   envelope_right, current_gain,
                                   attack_coeff, release_coeff)} :
           /\ right_out' = r.output
           /\ envelope_right' = r.envelope
           /\ comp_right' = r.comp_gain
    /\ env_updates' = env_updates + 1
    /\ pc' = "store_l"
    /\ UNCHANGED <<audio_buffer, num_read, loop_count, i, left_out,
                   envelope_left, ctl, in_deinit, out_deinit, chunks_read,
                   chunks_written, pot_reads, chunk_in, env_in, written,
                   comp_left, interrupted_at, used_released, expected,
                   odd_used>>

\* a faulty store: the left word put in the slot of the right word
StoreLeftInRightSlot ==
    /\ pc = "store_l"
    /\ audio_buffer' = StoreWord(audio_buffer, i * FrameBytes + 4,
                                 Encode(left_out))
    /\ pc' = "store_r"
    /\ UNCHANGED <<num_read, loop_count, i, left_out, right_out, envs, ctl,
                   in_deinit, out_deinit, hist>>

\* frame i: encode, store the four bytes of the left word
StoreLeft ==
    /\ pc = "store_l"
    /\ audio_buffer' = StoreWord(audio_buffer, i * FrameBytes, Encode(left_out))
    /\ pc' = "store_r"
    /\ UNCHANGED <<num_read, loop_count, i, left_out, right_out, envs, ctl,
                   in_deinit, out_deinit, hist>>

\* frame i: store the four bytes of the right word; next frame, or the write
StoreRight ==
    /\ pc = "store_r"
    /\ audio_buffer' = StoreWord(audio_buffer, i * FrameBytes + 4,
                                 Encode(right_out))
    /\ i' = i + 1
    /\ pc' = IF i + 1 < num_frames THEN "frame" ELSE "write"
    /\ UNCHANGED <<num_read, loop_count, left_out, right_out, envs, ctl,
                   in_deinit, out_deinit, hist>>

\* a faulty write: the whole buffer, not its first num_read bytes
WriteWholeBuffer ==
    /\ pc = "write"
    /\ written' = audio_buffer
    /\ chunks_written' = chunks_written + 1
    /\ used_released' = (used_released \/ out_deinit > 0)
    /\ pc' = "read"
    /\ UNCHANGED <<audio_buffer, num_read, loop_count, i, left_out, right_out,
                   envs, ctl, in_deinit, out_deinit, chunks_read, pot_reads,
                   chunk_in, env_in, comp_left, comp_right, env_updates,
                   interrupted_at, expected, odd_used>>

\* audio_out.write(audio_buffer[:num_read])
Write ==
    /\ pc = "write"
    /\ written' = SubSeq(audio_buffer, 1, num_read)
    /\ chunks_written' = chunks_written + 1
    /\ used_released' = (used_released \/ out_deinit > 0)
    /\ pc' = "read"
    /\ UNCHANGED <<audio_buffer, num_read, loop_count, i, left_out, right_out,
                   envs, ctl, in_deinit, out_deinit, chunks_read, pot_reads,
                   chunk_in, env_in, comp_left, comp_right, env_updates,
                   interrupted_at, expected, odd_used>>

\* KeyboardInterrupt is raised wherever the loop stands (in a blocking read
\* or write no byte of the pending transfer is taken as done)
Interrupt ==
    /\ pc \in LoopPcs
    /\ interrupted_at' = pc
    /\ pc' = "except"
    /\ UNCHANGED <<audio_buffer, num_read, loop_count, i, left_out, right_out,
                   envs, ctl, in_deinit, out_deinit, chunks_read,
                   chunks_written, pot_reads, chunk_in, env_in, written,
                   comp_left, comp_right, env_updates, used_released,
                   expected, odd_used>>

\* except KeyboardInterrupt: two prints
Except ==
    /\ pc = "except"
    /\ pc' = "finally"
    /\ UNCHANGED <<audio_buffer, num_read, loop_count, i, left_out, right_out,
                   envs, ctl, in_deinit, out_deinit, hist>>

\* a faulty clean-up: the output stream never released
FinallyInputOnly ==
    /\ pc = "finally"
    /\ in_deinit' = in_deinit + 1
    /\ pc' = "stopped"
    /\ UNCHANGED <<audio_buffer, num_read, loop_count, i, left_out, right_out,
                   envs, ctl, out_deinit, hist>>

\* finally: audio_in.deinit(); audio_out.deinit()
Finally ==
    /\ pc = "finally"
    /\ in_deinit' = in_deinit + 1
    /\ out_deinit' = out_deinit + 1
    /\ pc' = "stopped"
    /\ UNCHANGED <<audio_buffer, num_read, loop_count, i, left_out, right_out,
                   envs, ctl, hist>>

Next ==
    \/ ReadEmpty
    \/ ReadChunk(CHUNK_SIZE, SilentChunk)
    \/ \E n \in ReadSizes : ReadChunk(n, LoudChunk)
    \/ Count
    \/ \E p \in PotReadings : ReadPots(p[1], p[2])
    \/ FrameLeft
    \/ FrameRight
    \/ StoreLeft
    \/ StoreRight
    \/ Write
    \/ Interrupt
    \/ Except
    \/ Finally

Spec == Init /\ [][Next]_vars

\* once KeyboardInterrupt is raised the interpreter runs the handler and the
\* finally block, neither of which waits for anything
LiveSpec == Spec /\ WF_vars(Except) /\ WF_vars(Finally)

----------------------------------------------------------------------------
(* One frame from any state of the controls and the envelopes: the frame
   steps of the loop, started on a one-frame chunk with the samples, the
   envelopes and the controls drawn from the sets below. *)

\* <<left sample, right sample>> of the frame
FrameSamples ==
    { <<-Pow2[23], max_val>>, <<max_val, -Pow2[23]>>, <<-1, 0>>,
      <<1, -max_val>>, <<2002307, 2002308>>, <<-2002308, -2002307>>,
      <<500000, 500001>>, <<499999, -500000>>, <<1000000, -1000000>>,
      <<123456, -654321>>, <<3000000, 8000000>> }

\* padding bytes of the two container words
PadBytes == {0, 165}

\* <<envelope_left, envelope_right>> before the frame: zero, integers, the
\* threshold and the three floats next above it, the largest magnitude
FrameEnvelopes ==
    { <<FZero, FZero>>,
      <<FromInt(2002307), FromInt(2002308)>>,
      <<FThreshold, <<16000001, -5>> >>,
      << <<16000002, -5>>, <<16000003, -5>> >>,
      <<FromInt(Pow2[23]), FromInt(1000000)>>,
      <<FromInt(499999), FromInt(8000000)>> }

\* <<current_gain, attack_coeff, release_coeff>>: the initial values and
\* what read_pots leaves
FrameControls ==
    { <<FOne, InitAttack, InitRelease>>,
      read_pots(0, 65535, InitAttack, InitRelease),
      read_pots(4369, 65535, InitAttack, InitRelease),
      read_pots(65535, 0, InitAttack, InitRelease),
      read_pots(30000, 30000, InitAttack, InitRelease) }

InitFrame ==
    /\ pc = "frame"
    /\ \E s \in FrameSamples, low \in PadBytes :
           audio_buffer = [k \in 1..CHUNK_SIZE |->
                              IF k <= 4 THEN WordBytes(s[1], low)[k]
                              ELSE IF k <= 8 THEN WordBytes(s[2], low)[k - 4]
                              ELSE 0]
    /\ num_read = FrameBytes
    /\ loop_count = 1
    /\ i = 0
    /\ left_out = 0
    /\ right_out = 0
    /\ \E e \in FrameEnvelopes :
           /\ envelope_left = e[1]
           /\ envelope_right = e[2]
    /\ \E c \in FrameControls :
           /\ current_gain = c[1]
           /\ attack_coeff = c[2]
           /\ release_coeff = c[3]
    /\ in_deinit = 0
    /\ out_deinit = 0
    /\ chunks_read = 1
    /\ chunks_written = 0
    /\ pot_reads = 0
    /\ chunk_in = audio_buffer
    /\ env_in = <<envelope_left, envelope_right>>
    /\ written = <<>>
    /\ comp_left = FOne
    /\ comp_right = FOne
    /\ env_updates = 0
    /\ interrupted_at = "none"
    /\ used_released = FALSE
    /\ expected = ExpectedBuffer(ctl)
    /\ odd_used = 0

NextFrame == FrameLeft \/ FrameRight \/ StoreLeft \/ StoreRight

SpecFrame == InitFrame /\ [][NextFrame]_vars

----------------------------------------------------------------------------
(* properties of the running loop *)

\* neither stream is released before the finally block or more than once,
\* both are released when the script has stopped, and no stream is used
\* after its release
ReleaseSafe ==
    /\ in_deinit <= 1
    /\ out_deinit <= 1
    /\ pc = "stopped" => (in_deinit = 1 /\ out_deinit = 1)
    /\ pc # "stopped" => (in_deinit = 0 /\ out_deinit = 0)
    /\ ~used_released

\* C1: wherever in an iteration KeyboardInterrupt is raised (read, control
\* refresh, frame processing, write), the input stream and the output stream
\* are each released, exactly once, and neither is read or written after its
\* release.
C1_ReleasedExactlyOnce ==
    /\ []ReleaseSafe
    /\ (interrupted_at # "none")
           ~> (pc = "stopped" /\ in_deinit = 1 /\ out_deinit = 1)

\* the script has stopped, both streams released once, after an interruption
\* between the two stores of the second frame of a chunk
C1_Witness ==
    /\ pc = "stopped"
    /\ interrupted_at = "store_r"
    /\ i = 1
    /\ in_deinit = 1
    /\ out_deinit = 1

\* writes follow non-empty reads one for one, and the bytes written are the
\* first num_read bytes of the buffer computed from the chunk read
WritesFollowReads ==
    /\ Where = "read" => chunks_written = chunks_read
    /\ Where # "read" => chunks_written = chunks_read - 1
    /\ (pc = "read" /\ num_read > 0)
           => written = SubSeq(expected, 1, num_read)

\* a read of no bytes leaves the buffer, the envelopes, the controls, the
\* counters and the output alone
ZeroReadStep ==
    (pc = "read" /\ pc' = "read")
        => /\ num_read' = 0
           /\ UNCHANGED <<audio_buffer, envs, ctl, loop_count, chunks_read,
                          chunks_written, written, env_updates, pot_reads>>

\* C2: every read that returns num_read > 0 is followed, before the next
\* read, by exactly one write of exactly num_read bytes computed from that
\* read's chunk alone, and a read that returns 0 causes no write, no frame
\* processing and no change of the envelopes or the controls.
C2_WritesMatchReads == []WritesFollowReads /\ [][ZeroReadStep]_vars

\* the second chunk, one byte short and loud, has just been written and the
\* bytes written differ from the bytes read
C2_Witness ==
    /\ pc = "read"
    /\ num_read = CHUNK_SIZE - 1
    /\ chunks_written = 2
    /\ Len(written) = CHUNK_SIZE - 1
    /\ written # SubSeq(chunk_in, 1, num_read)

\* non-empty reads the loop has counted so far
counted == IF Where = "control" THEN chunks_read - 1 ELSE chunks_read

\* loop_count is the number of counted reads modulo the interval and
\* read_pots has run once for every full interval
RefreshCount ==
    /\ loop_count = counted % POT_READ_INTERVAL
    /\ pot_reads = (counted \div POT_READ_INTERVAL)
                       - (IF Where = "pots" THEN 1 ELSE 0)

\* read_pots runs, and the controls change, only in the control step of an
\* iteration, before any sample of its chunk has been compressed
RefreshStep ==
    (ctl' # ctl \/ pot_reads' # pot_reads)
        => /\ pc = "pots"
           /\ env_updates = 0
           /\ pot_reads' = pot_reads + 1
           /\ pc' \in {"frame", "write"}

\* C6: read_pots refreshes the controls on exactly every 20th non-empty read
\* counted from the start of the loop; reads of no bytes are not counted; the
\* refresh precedes every frame of its chunk and never falls inside a chunk,
\* so all frames of a chunk see the same gain and coefficients.
C6_RefreshEveryKth == []RefreshCount /\ [][RefreshStep]_vars

\* the 20th non-empty read has refreshed the controls to the largest gain
\* and the left sample of its first frame has been compressed
C6_Witness ==
    /\ pc = "right"
    /\ chunks_read = POT_READ_INTERVAL
    /\ pot_reads = 1
    /\ loop_count = 0
    /\ current_gain = MAX_GAIN

C8_SameCoefficient ==
    pc \in {"frame", "right"} => attack_coeff = release_coeff

\* C9: a read of num_read bytes, num_read not a multiple of 8, has exactly
\* floor(num_read / 8) frames decoded, compressed and stored; the bytes after
\* the last whole frame stay as they are, no envelope update is made for
\* them, and every byte touched lies inside the bytes read.
C9_WholeFramesOnly ==
    /\ pc \in FramePcs => (i + 1) * FrameBytes <= num_read
    /\ pc = "write"
           => /\ i = num_read \div FrameBytes
              /\ env_updates = 2 * (num_read \div FrameBytes)
              /\ audio_buffer = expected
              /\ \A k \in 1..CHUNK_SIZE :
                     k > (num_read \div FrameBytes) * FrameBytes
                         => audio_buffer[k] = chunk_in[k]

\* a loud chunk one byte short of the buffer is ready to be written: one
\* frame less than the buffer holds was processed and changed, and the seven
\* bytes after it are the bytes read
C9_Witness ==
    /\ pc = "write"
    /\ num_read = CHUNK_SIZE - 1
    /\ num_read % FrameBytes = FrameBytes - 1
    /\ i = MaxFrames - 1
    /\ audio_buffer # chunk_in
    /\ audio_buffer[num_read] = 255

\* C10: both envelopes stay within [0, 2^23] through every sequence of
\* samples and control refreshes, the coefficients within (0, 1].
C10_EnvelopeRange ==
    /\ FLe(FZero, envelope_left)
    /\ FLe(envelope_left, FromInt(Pow2[23]))
    /\ FLe(FZero, envelope_right)
    /\ FLe(envelope_right, FromInt(Pow2[23]))
    /\ FLt(FZero, attack_coeff)
    /\ FLe(attack_coeff, FOne)
    /\ FLt(FZero, release_coeff)
    /\ FLe(release_coeff, FOne)

\* after a control refresh, the right envelope above the threshold and
\* falling, the left envelope above zero
C10_Witness ==
    /\ pot_reads = 1
    /\ FGt(envelope_right, FThreshold)
    /\ FLt(envelope_right, env_in[2])
    /\ FGt(envelope_left, FZero)

----------------------------------------------------------------------------
(* properties of one frame *)

\* C3: for every 24 bit sample, every envelope and every gain the output of
\* compress_sample has magnitude at most 2^23 - 1, so that the word stored
\* for it holds it: four bytes, the low one zero, which decode to the output.
C3_OutputBounded ==
    /\ Abs(left_out) <= max_val
    /\ Abs(right_out) <= max_val
    /\ \A k \in 1..CHUNK_SIZE : audio_buffer[k] \in 0..255
    /\ pc \in {"store_r", "write"}
           => (Decode(audio_buffer, 0) = left_out /\ audio_buffer[1] = 0)
    /\ pc = "write"
           => (Decode(audio_buffer, 4) = right_out /\ audio_buffer[5] = 0)

\* full-scale samples of both signs under the largest gain, clipped and
\* stored
C3_Witness ==
    /\ pc = "write"
    /\ current_gain = MAX_GAIN
    /\ Decode(chunk_in, 0) = -Pow2[23]
    /\ left_out = -max_val
    /\ right_out = max_val
    /\ Decode(audio_buffer, 0) = -max_val

\* the pass of the channel at byte offset off was an identity pass
IdentityPass(off) ==
    /\ current_gain = FOne
    /\ (IF off = 0 THEN comp_left ELSE comp_right) = FOne

\* C4 (as stated): decoding a container word, an identity pass (gain 1,
\* compression gain 1) and encoding give back the 24 bit sample exactly,
\* over a low byte of zero, for every sample in [-2^23, 2^23 - 1] and every
\* padding byte.
C4_RoundTrip ==
    pc = "write"
        => \A off \in {0, 4} :
               IdentityPass(off)
                   => /\ Decode(audio_buffer, off) = Decode(chunk_in, off)
                      /\ audio_buffer[off + 1] = 0

\* C4 (amended): the same round trip is exact for every sample in
\* [-(2^23 - 1), 2^23 - 1]; the sample -2^23 comes back as -(2^23 - 1), the
\* clip being symmetric.  The low byte is zero in both cases.
C4_RoundTripClipped ==
    pc = "write"
        => \A off \in {0, 4} :
               IdentityPass(off)
                   => /\ Decode(audio_buffer, off) =
                             IF Decode(chunk_in, off) = -Pow2[23]
                             THEN -max_val
                             ELSE Decode(chunk_in, off)
                      /\ audio_buffer[off + 1] = 0

\* an identity pass of both channels over the frame (-2^23, 2^23 - 1) with
\* non-zero padding: the left sample comes back clipped, the right one exact
C4_Witness ==
    /\ pc = "write"
    /\ IdentityPass(0)
    /\ IdentityPass(4)
    /\ Decode(chunk_in, 0) = -Pow2[23]
    /\ Decode(audio_buffer, 0) = -max_val
    /\ Decode(chunk_in, 4) = max_val
    /\ Decode(audio_buffer, 4) = max_val
    /\ chunk_in[5] = 165
    /\ audio_buffer[5] = 0

\* both channels of the frame have been compressed: comp_left and comp_right
\* are the compression gains of envelope_left and envelope_right
BothCompressed == pc \in {"store_l", "store_r", "write"}

\* the compression gain is exactly 1.0 at or below the threshold and within
\* (0, 1] above it
GainInRange ==
    /\ FLe(envelope_left, FThreshold) => comp_left = FOne
    /\ FLe(envelope_right, FThreshold) => comp_right = FOne
    /\ FGt(envelope_left, FThreshold)
           => (FLt(FZero, comp_left) /\ FLe(comp_left, FOne))
    /\ FGt(envelope_right, FThreshold)
           => (FLt(FZero, comp_right) /\ FLe(comp_right, FOne))

\* C5 (as stated): the compression gain is exactly 1.0 whenever the envelope
\* is at most COMPRESS_THRESHOLD, lies in (0, 1] above it, and never
\* increases as the envelope increases.
C5_GainMonotone ==
    BothCompressed
        => /\ GainInRange
           /\ FLe(envelope_left, envelope_right) => FLe(comp_right, comp_left)
           /\ FLe(envelope_right, envelope_left) => FLe(comp_left, comp_right)

\* 2^-20
RoundingSlack == <<Pow2[23], -43>>

\* C5 (amended): the compression gain is exactly 1.0 whenever the envelope
\* is at most COMPRESS_THRESHOLD and lies in (0, 1] above it; as the envelope
\* increases it does not increase by more than the rounding of the single
\* precision arithmetic: the gain of the larger envelope exceeds the gain of
\* the smaller one by at most 2^-20.
C5_GainMonotoneRounded ==
    BothCompressed
        => /\ GainInRange
           /\ FLe(envelope_left, envelope_right)
                  => FLe(FSub(comp_right, comp_left), RoundingSlack)
           /\ FLe(envelope_right, envelope_left)
                  => FLe(FSub(comp_left, comp_right), RoundingSlack)

\* two envelopes above the threshold, the right one the larger, and the
\* gain of the right one the larger, too
C5_Witness ==
    /\ pc = "store_l"
    /\ FGt(envelope_left, FThreshold)
    /\ FLt(envelope_left, envelope_right)
    /\ FGt(comp_right, comp_left)
    /\ FLe(FSub(comp_right, comp_left), RoundingSlack)

============================================================================
